---- MODULE Spec2Model ----
(***************************************************************************)
(* Model of the platform layer (src/542/platform_layer.js): the ingest     *)
(* pipeline receiveData, its validators, anomaly detector and health       *)
(* scorer, the three bounded logs, and the report generators.              *)
(*                                                                         *)
(* Numbers are fixed-point integers, one unit per metric:                  *)
(*   temperature 1, voltage 1/10, current 1, vibration 1/1000,             *)
(*   displacement 1/100, tilt 1/10.                                        *)
(* Arithmetic is exact (rationals); IEEE rounding noise is not modelled.   *)
(* JavaScript values are records [k, v]: k is the kind ("number",          *)
(* "undefined", "null", "NaN"), v the number (0 for the other kinds).      *)
(* Timestamps are in minutes (Date.now() / 60000).                         *)
(***************************************************************************)
EXTENDS Integers, Sequences, FiniteSets, TLC

VARIABLES processedDataHistory, healthHistory, anomalyLog,
          now, lastCall, arg, result, dispatched, seenAtDispatch

vars == <<processedDataHistory, healthHistory, anomalyLog,
          now, lastCall, arg, result, dispatched, seenAtDispatch>>

logs == <<processedDataHistory, healthHistory, anomalyLog>>

(* ------------------------------ bounds -------------------------------- *)

\* config.historyLimit (1000 in the source), scaled down for checking
historyLimit == 11

\* receiveData calls beyond the history limit in the main specification
ExtraCalls == 1

\* depth at which the engine's call stack is exhausted
MaxCallStack == 3

\* receiveData calls in the specification over the wide reading set
MaxReadingCalls == 2

\* receiveData calls in the specification of the read accessors
MaxAccessorCalls == 10

\* largest explicit limit passed to a read accessor
MaxLimit == 2

(* ------------------------- JavaScript values -------------------------- *)

Num(n) == [k |-> "number", v |-> n]

Undefined == [k |-> "undefined", v |-> 0]

Null == [k |-> "null", v |-> 0]

NaN == [k |-> "NaN", v |-> 0]

\* ToNumber: null is 0, undefined is NaN
ToNumber(x) ==
    IF x.k = "number" THEN x
    ELSE IF x.k = "null" THEN Num(0)
    ELSE NaN

\* x < n, x > n, x <= n, x >= n for a JavaScript value x and a number n:
\* every comparison with NaN is false
Lt(x, n) == ToNumber(x).k = "number" /\ ToNumber(x).v < n

Gt(x, n) == ToNumber(x).k = "number" /\ ToNumber(x).v > n

Le(x, n) == ToNumber(x).k = "number" /\ ToNumber(x).v <= n

Ge(x, n) == ToNumber(x).k = "number" /\ ToNumber(x).v >= n

\* x - y
Sub(x, y) ==
    IF ToNumber(x).k = "number" /\ ToNumber(y).k = "number"
    THEN Num(ToNumber(x).v - ToNumber(y).v)
    ELSE NaN

\* Math.abs(x)
Abs(x) ==
    IF ToNumber(x).k = "number"
    THEN Num(IF ToNumber(x).v < 0 THEN -ToNumber(x).v ELSE ToNumber(x).v)
    ELSE NaN

\* obj[name]: a property the object does not have reads as undefined
GetProp(obj, name) == IF name \in DOMAIN obj THEN obj[name] ELSE Undefined

\* round(n / d) to the nearest integer, halves up (Math.round), d > 0
RoundDiv(n, d) == (2 * n + d) \div (2 * d)

(* --------------------------- configuration ---------------------------- *)

requiredFields ==
    <<"temperature", "voltage", "current", "vibration", "displacement", "tilt">>

Metrics == {requiredFields[i] : i \in 1..Len(requiredFields)}

\* fixed-point units per 1.0 of each metric
Unit ==
    [temperature |-> 1, voltage |-> 10, current |-> 1,
     vibration |-> 1000, displacement |-> 100, tilt |-> 10]

config ==
    [normalRanges |->
        [temperature  |-> [min |-> 20,  max |-> 30],
         voltage      |-> [min |-> 32,  max |-> 34],
         current      |-> [min |-> 140, max |-> 160],
         vibration    |-> [min |-> 0,   max |-> 100],
         displacement |-> [min |-> 0,   max |-> 100],
         tilt         |-> [min |-> 0,   max |-> 50]],
     warningThresholds |->
        [temperature  |-> [min |-> 18,  max |-> 32],
         voltage      |-> [min |-> 30,  max |-> 36],
         current      |-> [min |-> 120, max |-> 180],
         vibration    |-> [max |-> 80],
         displacement |-> [max |-> 80],
         tilt         |-> [max |-> 40]],
     anomalyThresholds |->
        [temperature  |-> [min |-> 15,  max |-> 35],
         voltage      |-> [min |-> 28,  max |-> 38],
         current      |-> [min |-> 100, max |-> 200],
         vibration    |-> [max |-> 90],
         displacement |-> [max |-> 90],
         tilt         |-> [max |-> 45]],
     dataQualityParams |->
        [completenessThreshold |-> 95,
         accuracyThreshold     |-> 90,
         stabilityThreshold    |-> 85],
     \* weights in hundredths
     healthScoreWeights |->
        [temperature |-> 20, voltage |-> 20, current |-> 20,
         vibration |-> 15, displacement |-> 15, tilt |-> 10],
     historyLimit |-> historyLimit]

\* the literal cap of the anomaly log; in the source it is the same number
\* as config.historyLimit, and the model scales the two together
AnomalyLogLimit == historyLimit

\* the hard-coded plausibility ranges of validateDataAccuracy
plausibleRanges ==
    [temperature  |-> [min |-> -50, max |-> 150],
     voltage      |-> [min |-> 0,   max |-> 100],
     current      |-> [min |-> 0,   max |-> 1000],
     vibration    |-> [min |-> 0,   max |-> 1000],
     displacement |-> [min |-> 0,   max |-> 1000],
     tilt         |-> [min |-> 0,   max |-> 900]]

\* the hard-coded rate-of-change ceilings of validateDataAccuracy
rateCeilings ==
    [temperature |-> 5, voltage |-> 5, current |-> 50,
     vibration |-> 50, displacement |-> 50, tilt |-> 20]

(* ----------------------------- validators ----------------------------- *)

validateDataCompleteness(data) ==
    \A i \in 1..Len(requiredFields) :
        ~ (data[requiredFields[i]].k = "undefined" \/ data[requiredFields[i]].k = "null")

\* the range checks of validateDataAccuracy
inPlausibleRanges(data) ==
    \A i \in 1..Len(requiredFields) :
        LET f == requiredFields[i] IN
        ~ (Lt(data[f], plausibleRanges[f].min) \/ Gt(data[f], plausibleRanges[f].max))

\* the rate checks of validateDataAccuracy: lastData is the last processed
\* RECORD, and the metric is read from the record itself
withinRateCeilings(data, lastData) ==
    \A i \in 1..Len(requiredFields) :
        LET f == requiredFields[i] IN
        ~ Gt(Abs(Sub(data[f], GetProp(lastData, f))), rateCeilings[f])

validateDataAccuracy(data) ==
    IF ~ inPlausibleRanges(data) THEN FALSE
    ELSE IF Len(processedDataHistory) > 0
         THEN withinRateCeilings(data, processedDataHistory[Len(processedDataHistory)])
         ELSE TRUE

(* -------------------------- anomaly detector --------------------------- *)

Pow10(d) == IF d = 0 THEN 1 ELSE IF d = 1 THEN 10 ELSE IF d = 2 THEN 100 ELSE 1000

\* x.toFixed(digits) for a metric kept in 1/unit: the decimal text, held as
\* the integer number of 10^-digits it prints; null and undefined have no
\* toFixed method and the call raises TypeError
toFixed(x, unit, digits) ==
    IF x.k = "null" \/ x.k = "undefined"
    THEN [ok |-> FALSE, text |-> 0]
    ELSE [ok |-> TRUE, text |-> RoundDiv(x.v * Pow10(digits), unit)]

\* reason '' of a reading that is not anomalous
EmptyReason == [text |-> "", value |-> 0, bound |-> 0]

TypeError == [threw |-> TRUE, isAnomaly |-> FALSE, reason |-> EmptyReason]

\* result.isAnomaly = true; result.reason = `<text> (<value.toFixed> ... <bound>)`
setReason(x, unit, digits, text, bound) ==
    IF toFixed(x, unit, digits).ok
    THEN [threw |-> FALSE, isAnomaly |-> TRUE,
          reason |-> [text |-> text, value |-> toFixed(x, unit, digits).text,
                      bound |-> bound]]
    ELSE TypeError

\* variant: the comparisons include the bounds themselves
checkTwoSidedInclusive(prev, data, f, digits, lowText, highText) ==
    IF prev.threw THEN prev
    ELSE IF Le(data[f], config.anomalyThresholds[f].min)
         THEN setReason(data[f], Unit[f], digits, lowText,
                        config.anomalyThresholds[f].min)
    ELSE IF Ge(data[f], config.anomalyThresholds[f].max)
         THEN setReason(data[f], Unit[f], digits, highText,
                        config.anomalyThresholds[f].max)
    ELSE prev

\* one `if (v < min) {...} else if (v > max) {...}` statement of detectAnomaly,
\* run on the result object left by the statements before it
checkTwoSided(prev, data, f, digits, lowText, highText) ==
    IF prev.threw THEN prev
    ELSE IF Lt(data[f], config.anomalyThresholds[f].min)
         THEN setReason(data[f], Unit[f], digits, lowText,
                        config.anomalyThresholds[f].min)
    ELSE IF Gt(data[f], config.anomalyThresholds[f].max)
         THEN setReason(data[f], Unit[f], digits, highText,
                        config.anomalyThresholds[f].max)
    ELSE prev

\* variant: the statement is skipped once an earlier metric has set the reason
checkUpperBoundKeepFirst(prev, data, f, digits, highText) ==
    IF prev.threw \/ prev.isAnomaly THEN prev
    ELSE IF Gt(data[f], config.anomalyThresholds[f].max)
         THEN setReason(data[f], Unit[f], digits, highText,
                        config.anomalyThresholds[f].max)
    ELSE prev

\* one `if (v > max) {...}` statement of detectAnomaly
checkUpperBound(prev, data, f, digits, highText) ==
    IF prev.threw THEN prev
    ELSE IF Gt(data[f], config.anomalyThresholds[f].max)
         THEN setReason(data[f], Unit[f], digits, highText,
                        config.anomalyThresholds[f].max)
    ELSE prev

detectAnomaly(data) ==
    LET r0 == [threw |-> FALSE, isAnomaly |-> FALSE, reason |-> EmptyReason]
        r1 == checkTwoSided(r0, data, "temperature", 1,
                            "TemperatureLow", "TemperatureHigh")
        r2 == checkTwoSided(r1, data, "voltage", 2, "PressureLow", "PressureHigh")
        r3 == checkTwoSided(r2, data, "current", 1, "ShakeLow", "ShakeHigh")
        r4 == checkUpperBound(r3, data, "vibration", 3, "VibrationHigh")
        r5 == checkUpperBound(r4, data, "displacement", 2, "DisplacementHigh")
        r6 == checkUpperBound(r5, data, "tilt", 2, "TiltHigh")
    IN  r6

(* ---------------------------- health scorer --------------------------- *)

\* a per-metric score is the rational n / d, d > 0
Rat(n, d) == [n |-> n, d |-> d]

\* 100 - (distance / range) * 100; both callers reach it with range > 0
interpolate(distance, range) == Rat(100 * range - 100 * distance, range)

calculateMetricScore(value, normalMin, normalMax, anomalyMin, anomalyMax) ==
    IF Ge(value, normalMin) /\ Le(value, normalMax) THEN Rat(100, 1)
    ELSE IF Ge(value, anomalyMin) /\ Le(value, anomalyMax)
         THEN IF Lt(value, normalMin)
              THEN interpolate(normalMin - ToNumber(value).v, normalMin - anomalyMin)
              ELSE interpolate(ToNumber(value).v - normalMax, anomalyMax - normalMax)
    ELSE Rat(0, 1)

calculateUpperBoundScore(value, normalMax, anomalyMax) ==
    IF Le(value, normalMax) THEN Rat(100, 1)
    ELSE IF Le(value, anomalyMax)
         THEN interpolate(ToNumber(value).v - normalMax, anomalyMax - normalMax)
    ELSE Rat(0, 1)

\* the per-metric score calculateHealthScore computes for metric f
metricScore(data, f) ==
    IF f \in {"temperature", "voltage", "current"}
    THEN calculateMetricScore(data[f],
             config.normalRanges[f].min, config.normalRanges[f].max,
             config.anomalyThresholds[f].min, config.anomalyThresholds[f].max)
    ELSE calculateUpperBoundScore(data[f],
             config.normalRanges[f].max, config.anomalyThresholds[f].max)

\* Math.max(0, Math.min(100, x))
clamp(x) == IF x < 0 THEN 0 ELSE IF x > 100 THEN 100 ELSE x

\* score = 100 - sum over the metrics of (100 - metricScore) * weight, rounded
\* and clamped; the sum is taken over the common denominator 100 * D
\* variant: the penalties are not weighted and the result is not clamped
calculateHealthScoreUnweighted(data) ==
    LET s == [i \in 1..6 |-> metricScore(data, requiredFields[i])]
        D == s[1].d * s[2].d * s[3].d * s[4].d * s[5].d * s[6].d
        pen(i) == (100 * s[i].d - s[i].n) * (D \div s[i].d)
        total == 100 * D - (pen(1) + pen(2) + pen(3) + pen(4) + pen(5) + pen(6))
    IN  RoundDiv(total, D)

calculateHealthScore(data) ==
    LET s == [i \in 1..6 |-> metricScore(data, requiredFields[i])]
        w == [i \in 1..6 |-> config.healthScoreWeights[requiredFields[i]]]
        D == s[1].d * s[2].d * s[3].d * s[4].d * s[5].d * s[6].d
        pen(i) == (100 * s[i].d - s[i].n) * w[i] * (D \div s[i].d)
        total == 100 * 100 * D
                 - (pen(1) + pen(2) + pen(3) + pen(4) + pen(5) + pen(6))
    IN  clamp(RoundDiv(total, 100 * D))

determineHealthStatus(score) ==
    IF score >= 90 THEN [text |-> "excellent", color |-> "bg-green-500"]
    ELSE IF score >= 80 THEN [text |-> "good", color |-> "bg-green-400"]
    ELSE IF score >= 70 THEN [text |-> "normal", color |-> "bg-blue-400"]
    ELSE IF score >= 60 THEN [text |-> "warning", color |-> "bg-yellow-500"]
    ELSE [text |-> "critical", color |-> "bg-red-500"]

(* ---------------------------- history store --------------------------- *)

\* data.timestamp || Date.now(), at time t
timestampOf(data, t) ==
    IF GetProp(data, "timestamp").k = "number" /\ GetProp(data, "timestamp").v # 0
    THEN GetProp(data, "timestamp").v
    ELSE t

\* variant: the oldest record is never shifted out
recordProcessedDataUnbounded(history, data, healthScore, anomalyResult, t) ==
    Append(history,
           [timestamp |-> timestampOf(data, t),
            data |-> data,
            healthScore |-> healthScore,
            isAnomaly |-> anomalyResult.isAnomaly,
            anomalyReason |-> anomalyResult.reason])

\* processedDataHistory after recordProcessedData(data, healthScore, anomalyResult)
recordProcessedData(history, data, healthScore, anomalyResult, t) ==
    LET pushed == Append(history,
                     [timestamp |-> timestampOf(data, t),
                      data |-> data,
                      healthScore |-> healthScore,
                      isAnomaly |-> anomalyResult.isAnomaly,
                      anomalyReason |-> anomalyResult.reason])
    IN  IF Len(pushed) > config.historyLimit THEN Tail(pushed) ELSE pushed

\* variant: recordHealthHistory leaves the history as it was
recordHealthHistorySkipped(history, score, t) == history

\* healthHistory after recordHealthHistory(score)
recordHealthHistory(history, score, t) ==
    LET pushed == Append(history, [timestamp |-> t, score |-> score])
    IN  IF Len(pushed) > config.historyLimit THEN Tail(pushed) ELSE pushed

\* variant: logAnomaly leaves the log as it was
logAnomalyDropped(log, data, reason, t) == log

\* anomalyLog after logAnomaly(data, reason)
logAnomaly(log, data, reason, t) ==
    LET pushed == Append(log,
                     [timestamp |-> timestampOf(data, t),
                      data |-> data,
                      reason |-> reason])
    IN  IF Len(pushed) > AnomalyLogLimit THEN Tail(pushed) ELSE pushed

\* the CustomEvent that triggerAnomalyEvent dispatches on window
triggerAnomalyEvent(data, reason, t) ==
    [type |-> "platform.anomaly",
     detail |-> [timestamp |-> timestampOf(data, t), data |-> data, reason |-> reason]]

(* ---------------------------- ingest pipeline ------------------------- *)

\* the three logs as a listener of 'platform.anomaly' reads them: dispatchEvent
\* runs the listeners synchronously, after recordProcessedData and logAnomaly
\* and before recordHealthHistory
logsAtDispatch(rawData, healthScore, anomalyResult, t) ==
    [processedDataHistory |->
         recordProcessedData(processedDataHistory, rawData,
                             healthScore, anomalyResult, t),
     anomalyLog |-> logAnomaly(anomalyLog, rawData, anomalyResult.reason, t),
     healthHistory |-> healthHistory]

\* receiveData(rawData), called at time now + 1
receiveData(rawData) ==
    LET t == now + 1
        isComplete == validateDataCompleteness(rawData)
        isAccurate == validateDataAccuracy(rawData)
        anomalyResult == detectAnomaly(rawData)
        healthScore == calculateHealthScore(rawData)
        healthStatus == determineHealthStatus(healthScore)
    IN  /\ now' = t
        /\ lastCall' = "receiveData"
        /\ arg' = rawData
        /\ IF anomalyResult.threw
           THEN /\ result' = [kind |-> "TypeError"]
                /\ dispatched' = << >>
                /\ seenAtDispatch' = << >>
                /\ UNCHANGED logs
           ELSE /\ processedDataHistory' =
                       recordProcessedData(processedDataHistory, rawData,
                                           healthScore, anomalyResult, t)
                /\ anomalyLog' =
                       IF anomalyResult.isAnomaly
                       THEN logAnomaly(anomalyLog, rawData, anomalyResult.reason, t)
                       ELSE anomalyLog
                /\ dispatched' =
                       IF anomalyResult.isAnomaly
                       THEN << triggerAnomalyEvent(rawData, anomalyResult.reason, t) >>
                       ELSE << >>
                /\ seenAtDispatch' =
                       IF anomalyResult.isAnomaly
                       THEN << logsAtDispatch(rawData, healthScore, anomalyResult, t) >>
                       ELSE << >>
                /\ healthHistory' = recordHealthHistory(healthHistory, healthScore, t)
                /\ result' = [kind |-> "result",
                              rawData |-> rawData,
                              isComplete |-> isComplete,
                              isAccurate |-> isAccurate,
                              isAnomaly |-> anomalyResult.isAnomaly,
                              anomalyReason |-> anomalyResult.reason,
                              healthScore |-> healthScore,
                              healthStatus |-> healthStatus]

(* ----------------------------- report engine -------------------------- *)

RECURSIVE sumTo(_, _)
\* values[1] + ... + values[n] for a sequence of integers
sumTo(values, n) == IF n = 0 THEN 0 ELSE sumTo(values, n - 1) + values[n]

\* the metric f of every retained record, as numbers (ToNumber)
metricValues(f) ==
    [i \in 1..Len(processedDataHistory) |-> ToNumber(processedDataHistory[i].data[f])]

\* a sum or mean over values with a NaN among them is NaN
allNumbers(values) == \A i \in 1..Len(values) : values[i].k = "number"

plainValues(values) == [i \in 1..Len(values) |-> values[i].v]

\* digits of the toFixed() applied to each metric's mean in calculateKeyMetrics
meanDigits ==
    [temperature |-> 1, voltage |-> 2, current |-> 1,
     vibration |-> 3, displacement |-> 2, tilt |-> 2]

\* calculateMean(values).toFixed(digits), in units of 10^-digits (the sums of
\* the model are not negative); "NaN" when a value is not a number
meanFixed(f) ==
    LET values == metricValues(f) IN
    IF allNumbers(values)
    THEN Num(RoundDiv(sumTo(plainValues(values), Len(values)) * Pow10(meanDigits[f]),
                      Unit[f] * Len(values)))
    ELSE NaN

\* calculateKeyMetrics(): per metric the mean that detectIssues reads; stdDev,
\* min and max are display fields nothing branches on and are left out
calculateKeyMetrics ==
    [f \in (IF Len(processedDataHistory) = 0 THEN {} ELSE Metrics) |->
        [mean |-> meanFixed(f)]]

\* a warning threshold in the units of the printed mean
warningBound(f, side) ==
    (config.warningThresholds[f][side] * Pow10(meanDigits[f])) \div Unit[f]

\* round to nearest, halves away from zero (toFixed)
RoundHalfAway(n, d) == IF n >= 0 THEN RoundDiv(n, d) ELSE - RoundDiv(-n, d)

RangeError == [kind |-> "RangeError"]

InsufficientHealthReport ==
    [kind |-> "report",
     duration |-> "insufficient",
     healthScore |-> [current |-> 0, average |-> Rat(0, 1), trend |-> 0,
                      status |-> [text |-> "insufficient data", color |-> "bg-gray-500"]],
     anomalyStats |-> [count |-> 0, rate |-> 0],
     issues |-> << "InsufficientData" >>,
     recommendations |-> << "CollectMoreData" >>]

\* the advisory generateRecommendations pushes for an issue
advisoryOf(issue) ==
    CASE issue = "TemperatureLow"    -> "CheckTemperatureSensor"
      [] issue = "TemperatureHigh"   -> "CheckCooling"
      [] issue = "PressureLow"       -> "CheckPressureSupply"
      [] issue = "PressureHigh"      -> "CheckOverPressure"
      [] issue = "ShakeLow"          -> "CheckShakeSensor"
      [] issue = "ShakeHigh"         -> "CheckMounting"
      [] issue = "VibrationHigh"     -> "CheckStructure"
      [] issue = "DisplacementHigh"  -> "CheckFoundation"
      [] issue = "TiltHigh"          -> "CheckTilt"
      [] issue = "AnomalyRateHigh"   -> "CheckSensors"
      [] issue = "HealthScoreLow"    -> "CheckAllComponents"
      [] issue = "HealthTrendDown"   -> "MonitorMoreOften"

generateRecommendations(issues) ==
    IF Len(issues) = 0 THEN << "OperatingNormally" >>
    ELSE [i \in 1..Len(issues) |-> advisoryOf(issues[i])] \o << "ReportRegularly" >>

RECURSIVE generateHealthReportAt(_), detectIssuesAt(_, _)

\* detectIssues(keyMetrics) in the call-stack frame `depth`: the issues, or
\* the RangeError that unwinds through it
detectIssuesAt(keyMetrics, depth) ==
    LET twoSided(f, low, high) ==
            IF f \notin DOMAIN keyMetrics THEN << >>
            ELSE IF Lt(keyMetrics[f].mean, warningBound(f, "min")) THEN << low >>
            ELSE IF Gt(keyMetrics[f].mean, warningBound(f, "max")) THEN << high >>
            ELSE << >>
        upper(f, high) ==
            IF f \notin DOMAIN keyMetrics THEN << >>
            ELSE IF Gt(keyMetrics[f].mean, warningBound(f, "max")) THEN << high >>
            ELSE << >>
        \* (anomalyLog.length / processedDataHistory.length * 100).toFixed(2)
        anomalyRate == RoundDiv(Len(anomalyLog) * 100 * 100, Len(processedDataHistory))
        healthReport == generateHealthReportAt(depth + 1)
    IN  IF depth > MaxCallStack THEN [threw |-> TRUE, issues |-> << >>]
        ELSE IF healthReport.kind = "RangeError" THEN [threw |-> TRUE, issues |-> << >>]
        ELSE [threw |-> FALSE,
              issues |->
                 twoSided("temperature", "TemperatureLow", "TemperatureHigh")
                 \o twoSided("voltage", "PressureLow", "PressureHigh")
                 \o twoSided("current", "ShakeLow", "ShakeHigh")
                 \o upper("vibration", "VibrationHigh")
                 \o upper("displacement", "DisplacementHigh")
                 \o upper("tilt", "TiltHigh")
                 \o (IF anomalyRate > 500 THEN << "AnomalyRateHigh" >> ELSE << >>)
                 \o (IF healthReport.healthScore.current < 80
                     THEN << "HealthScoreLow" >> ELSE << >>)
                 \o (IF healthReport.healthScore.trend < -50
                     THEN << "HealthTrendDown" >> ELSE << >>)]

\* generateHealthReport() in the call-stack frame `depth`
generateHealthReportAt(depth) ==
    IF depth > MaxCallStack THEN RangeError
    ELSE IF Len(processedDataHistory) < 10 THEN InsufficientHealthReport
    ELSE
    LET n == Len(processedDataHistory)
        healthScores == [i \in 1..n |-> processedDataHistory[i].healthScore]
        currentHealthScore == healthScores[n]
        avgHealthScore == Rat(sumTo(healthScores, n), n)
        \* minutes between the 10th most recent record and the last
        timeDiff == processedDataHistory[n].timestamp
                    - processedDataHistory[n - 9].timestamp
        \* ((lastScore - firstScore) / timeDiff).toFixed(2), in hundredths
        healthTrend ==
            IF timeDiff > 0
            THEN RoundHalfAway((healthScores[n] - healthScores[n - 9]) * 100, timeDiff)
            ELSE 0
        healthStatus == determineHealthStatus(currentHealthScore)
        anomalyCount == Len(anomalyLog)
        \* (anomalyCount / length * 100).toFixed(2), in hundredths of a percent
        anomalyRate == RoundDiv(anomalyCount * 100 * 100, n)
        keyMetrics == calculateKeyMetrics
        issues == detectIssuesAt(keyMetrics, depth + 1)
        durationMinutes == processedDataHistory[n].timestamp
                           - processedDataHistory[1].timestamp
    IN  IF issues.threw THEN RangeError
        ELSE [kind |-> "report",
              duration |-> [hours |-> durationMinutes \div 60,
                            minutes |-> durationMinutes % 60],
              healthScore |-> [current |-> currentHealthScore,
                               average |-> avgHealthScore,
                               trend |-> healthTrend,
                               status |-> healthStatus],
              anomalyStats |-> [count |-> anomalyCount, rate |-> anomalyRate],
              keyMetrics |-> keyMetrics,
              issues |-> issues.issues,
              recommendations |-> generateRecommendations(issues.issues)]

\* generateHealthReport() as the host calls it
generateHealthReport == generateHealthReportAt(1)

(* -------------------------- data quality report ----------------------- *)

\* count of i in 1..n with P[i]
RECURSIVE countTo(_, _)
countTo(flags, n) ==
    IF n = 0 THEN 0 ELSE countTo(flags, n - 1) + (IF flags[n] THEN 1 ELSE 0)

\* a percentage .toFixed(1) in tenths, and the score Math.round() makes of it
percentage(count, total) ==
    LET tenths == RoundDiv(count * 1000, total)
    IN  [value |-> tenths, score |-> Num(clamp(RoundDiv(tenths, 10)))]

calculateDataCompleteness ==
    IF Len(processedDataHistory) = 0 THEN [value |-> 0, score |-> Num(0)]
    ELSE percentage(
             countTo([i \in 1..Len(processedDataHistory) |->
                         validateDataCompleteness(processedDataHistory[i].data)],
                     Len(processedDataHistory)),
             Len(processedDataHistory))

\* every retained reading is re-validated by validateDataAccuracy, which
\* compares it with the LAST record of the history
calculateDataAccuracy ==
    IF Len(processedDataHistory) = 0 THEN [value |-> 0, score |-> Num(0)]
    ELSE percentage(
             countTo([i \in 1..Len(processedDataHistory) |->
                         validateDataAccuracy(processedDataHistory[i].data)],
                     Len(processedDataHistory)),
             Len(processedDataHistory))

RECURSIVE isqrtBetween(_, _, _)
\* the integer square root of x, given lo * lo <= x < hi * hi
isqrtBetween(x, lo, hi) ==
    IF hi - lo <= 1 THEN lo
    ELSE LET mid == (lo + hi) \div 2
         IN  IF mid * mid <= x THEN isqrtBetween(x, mid, hi)
             ELSE isqrtBetween(x, lo, mid)

isqrt(x) == isqrtBetween(x, 0, 46341)

\* calculateCoefficientOfVariation(values) in units of 1/10000:
\* stdDev / mean = sqrt(n * sum(x^2) - sum(x)^2) / sum(x), the square root
\* taken to two decimals
calculateCoefficientOfVariation(values) ==
    IF Len(values) = 0 THEN Num(0)
    ELSE IF \E i \in 1..Len(values) : ToNumber(values[i]).k # "number" THEN NaN
    ELSE LET xs == plainValues([i \in 1..Len(values) |-> ToNumber(values[i])])
             n == Len(xs)
             S == sumTo(xs, n)
             Q == sumTo([i \in 1..n |-> xs[i] * xs[i]], n)
         IN  IF S = 0 THEN Num(0)
             ELSE Num((isqrt((n * Q - S * S) * 10000) * 100) \div S)

calculateDataStability ==
    IF Len(processedDataHistory) < 10 THEN [value |-> Num(0), score |-> Num(0)]
    ELSE LET cv == [i \in 1..6 |->
                       calculateCoefficientOfVariation(metricValues(requiredFields[i]))]
         IN  IF \E i \in 1..6 : cv[i].k # "number"
             \* avgCV is NaN, and so is everything computed from it
             THEN [value |-> NaN, score |-> NaN]
             ELSE LET total == sumTo([i \in 1..6 |-> cv[i].v], 6)
                      \* Math.round((1 - Math.min(avgCV / 0.1, 1)) * 100)
                      stabilityScore ==
                          IF total >= 6000 THEN 0 ELSE RoundDiv(6000 - total, 60)
                  IN  [value |-> Num(clamp(stabilityScore) * 10),
                       score |-> Num(clamp(stabilityScore))]

generateDataQualityRecommendations(completeness, accuracy, stability) ==
    (IF Lt(completeness.score, config.dataQualityParams.completenessThreshold)
     THEN << "ImproveCompleteness" >> ELSE << >>)
    \o (IF Lt(accuracy.score, config.dataQualityParams.accuracyThreshold)
        THEN << "ImproveAccuracy" >> ELSE << >>)
    \o (IF Lt(stability.score, config.dataQualityParams.stabilityThreshold)
        THEN << "ImproveStability" >> ELSE << >>)
    \o (IF /\ Ge(completeness.score, config.dataQualityParams.completenessThreshold)
           /\ Ge(accuracy.score, config.dataQualityParams.accuracyThreshold)
           /\ Ge(stability.score, config.dataQualityParams.stabilityThreshold)
        THEN << "QualityGood" >> ELSE << >>)

InsufficientDataQualityReport ==
    [kind |-> "report",
     dataQualityScore |-> Num(0),
     qualityLevel |-> [name |-> "insufficient data", color |-> "bg-gray-500"],
     recommendations |-> << "InsufficientData" >>]

\* generateDataQualityReport() past its insufficient-data guard
fullDataQualityReport ==
    LET completeness == calculateDataCompleteness
        accuracy == calculateDataAccuracy
        stability == calculateDataStability
        \* Math.round((completeness.score + accuracy.score + stability.score) / 3)
        dataQualityScore ==
            IF stability.score.k = "number"
            THEN Num(RoundDiv(completeness.score.v + accuracy.score.v
                              + stability.score.v, 3))
            ELSE NaN
        qualityLevel ==
            IF Ge(dataQualityScore, 90) THEN [name |-> "excellent", color |-> "bg-green-500"]
            ELSE IF Ge(dataQualityScore, 80) THEN [name |-> "good", color |-> "bg-green-400"]
            ELSE IF Ge(dataQualityScore, 70) THEN [name |-> "fair", color |-> "bg-blue-400"]
            ELSE IF Ge(dataQualityScore, 60) THEN [name |-> "poor", color |-> "bg-yellow-500"]
            ELSE [name |-> "bad", color |-> "bg-red-500"]
    IN  [kind |-> "report",
         dataQualityScore |-> dataQualityScore,
         qualityLevel |-> qualityLevel,
         metrics |-> [completeness |-> completeness,
                      accuracy |-> accuracy,
                      stability |-> stability],
         recommendations |->
             generateDataQualityRecommendations(completeness, accuracy, stability)]

\* variant: the guard lets a history of 9 records through
generateDataQualityReportFrom9 ==
    IF Len(processedDataHistory) < 9 THEN InsufficientDataQualityReport
    ELSE fullDataQualityReport

generateDataQualityReport ==
    IF Len(processedDataHistory) < 10 THEN InsufficientDataQualityReport
    ELSE fullDataQualityReport

(* ---------------------------- read accessors -------------------------- *)

Reverse(seq) == [i \in 1..Len(seq) |-> seq[Len(seq) + 1 - i]]

\* variant: log.reverse() without the copy reverses the log itself
reversedInPlace(log) == [returned |-> Reverse(log), log |-> Reverse(log)]

\* [...log].reverse(): the reversed copy that is returned, and the log after it
reversedCopy(log) == [returned |-> Reverse(log), log |-> log]

\* variant: the slice keeps one element more
slice0Inclusive(seq, end) ==
    SubSeq(seq, 1, IF end + 1 < Len(seq) THEN end + 1 ELSE Len(seq))

\* seq.slice(0, end)
slice0(seq, end) ==
    IF end >= 0
    THEN SubSeq(seq, 1, IF end < Len(seq) THEN end ELSE Len(seq))
    ELSE SubSeq(seq, 1, IF Len(seq) + end > 0 THEN Len(seq) + end ELSE 0)

\* the default parameter: limit = 100 when the argument is undefined
limitOr100(limit) == IF limit.k = "undefined" THEN 100 ELSE limit.v

getAnomalyLog(limit) == slice0(reversedCopy(anomalyLog).returned, limitOr100(limit))

getHealthHistory(limit) ==
    slice0(reversedCopy(healthHistory).returned, limitOr100(limit))

getProcessedDataHistory(limit) ==
    slice0(reversedCopy(processedDataHistory).returned, limitOr100(limit))

(* ------------------------------- readings ----------------------------- *)

\* temperature 25, voltage 3.3, current 150, vibration 0.05, displacement 0.5, tilt 2
NormalReading ==
    [temperature |-> Num(25), voltage |-> Num(33), current |-> Num(150),
     vibration |-> Num(50), displacement |-> Num(50), tilt |-> Num(20)]

\* temperature 40, the rest as in NormalReading
HotReading == [NormalReading EXCEPT !.temperature = Num(40)]

\* the readings of the main specification
Readings == {NormalReading, HotReading}

\* the values each metric takes in the wide reading set: missing, null, below,
\* at, inside and above the anomaly bounds
MetricValues ==
    [temperature  |-> {Undefined, Null, Num(10), Num(15), Num(17), Num(25), Num(35), Num(40)},
     voltage      |-> {Undefined, Null, Num(27), Num(28), Num(30), Num(33), Num(38), Num(39)},
     current      |-> {Undefined, Null, Num(90), Num(100), Num(120), Num(150), Num(200), Num(210)},
     vibration    |-> {Undefined, Null, Num(50), Num(90), Num(95), Num(100), Num(200)},
     displacement |-> {Undefined, Null, Num(50), Num(90), Num(95), Num(100), Num(200)},
     tilt         |-> {Undefined, Null, Num(20), Num(45), Num(47), Num(50), Num(60),
                       Num(950)}]

\* NormalReading with at most two metrics replaced
WideReadings ==
    UNION {{[NormalReading EXCEPT ![m[1]] = v1, ![m[2]] = v2] :
               v1 \in MetricValues[m[1]], v2 \in MetricValues[m[2]]} :
           m \in Metrics \X Metrics}

\* NormalReading with one metric moved by more than its rate ceiling, inside
\* the plausibility range
JumpReadings ==
    {NormalReading,
     [NormalReading EXCEPT !.temperature = Num(31)],
     [NormalReading EXCEPT !.voltage = Num(39)],
     [NormalReading EXCEPT !.current = Num(201)],
     [NormalReading EXCEPT !.vibration = Num(101)],
     [NormalReading EXCEPT !.displacement = Num(101)],
     [NormalReading EXCEPT !.tilt = Num(41)]}

(* ---------------------------- specifications -------------------------- *)

Init ==
    /\ processedDataHistory = << >>
    /\ healthHistory = << >>
    /\ anomalyLog = << >>
    /\ now = 0
    /\ lastCall = "none"
    /\ arg = NormalReading
    /\ result = [kind |-> "none"]
    /\ dispatched = << >>
    /\ seenAtDispatch = << >>

ReceiveData ==
    /\ now < historyLimit + ExtraCalls
    /\ \E rawData \in Readings : receiveData(rawData)

GenerateHealthReport ==
    /\ lastCall' = "generateHealthReport"
    /\ result' = generateHealthReport
    /\ dispatched' = << >>
    /\ seenAtDispatch' = << >>
    /\ UNCHANGED <<logs, now, arg>>

GenerateDataQualityReport ==
    /\ lastCall' = "generateDataQualityReport"
    /\ result' = generateDataQualityReport
    /\ dispatched' = << >>
    /\ seenAtDispatch' = << >>
    /\ UNCHANGED <<logs, now, arg>>

Next == ReceiveData \/ GenerateHealthReport \/ GenerateDataQualityReport

Spec == Init /\ [][Next]_vars

\* one reading of the wide set, then one of the jump set
ReceiveReading ==
    /\ now < MaxReadingCalls
    /\ \E rawData \in (IF now = 0 THEN WideReadings ELSE JumpReadings) :
           receiveData(rawData)

NextReadings == ReceiveReading

SpecReadings == Init /\ [][NextReadings]_vars

\* temperature 40 and tilt NaN, the rest as in NormalReading
FaultyReading == [NormalReading EXCEPT !.temperature = Num(40), !.tilt = NaN]

\* the readings of the specification of the read accessors
SampleReadings == {NormalReading, FaultyReading}

\* the limits passed to the read accessors: 0..MaxLimit, or none (the default)
AccessorLimits == {Num(n) : n \in 0..MaxLimit} \cup {Undefined}

ReceiveSample ==
    /\ now < MaxAccessorCalls
    /\ \E rawData \in SampleReadings : receiveData(rawData)

GetAnomalyLog ==
    \E limit \in AccessorLimits :
        /\ lastCall' = "getAnomalyLog"
        /\ arg' = limit
        /\ result' = [kind |-> "list", items |-> getAnomalyLog(limit)]
        /\ anomalyLog' = reversedCopy(anomalyLog).log
        /\ dispatched' = << >>
        /\ seenAtDispatch' = << >>
        /\ UNCHANGED <<processedDataHistory, healthHistory, now>>

GetHealthHistory ==
    \E limit \in AccessorLimits :
        /\ lastCall' = "getHealthHistory"
        /\ arg' = limit
        /\ result' = [kind |-> "list", items |-> getHealthHistory(limit)]
        /\ healthHistory' = reversedCopy(healthHistory).log
        /\ dispatched' = << >>
        /\ seenAtDispatch' = << >>
        /\ UNCHANGED <<processedDataHistory, anomalyLog, now>>

GetProcessedDataHistory ==
    \E limit \in AccessorLimits :
        /\ lastCall' = "getProcessedDataHistory"
        /\ arg' = limit
        /\ result' = [kind |-> "list", items |-> getProcessedDataHistory(limit)]
        /\ processedDataHistory' = reversedCopy(processedDataHistory).log
        /\ dispatched' = << >>
        /\ seenAtDispatch' = << >>
        /\ UNCHANGED <<healthHistory, anomalyLog, now>>

NextAccessors ==
    \/ ReceiveSample
    \/ GenerateDataQualityReport
    \/ GetAnomalyLog
    \/ GetHealthHistory
    \/ GetProcessedDataHistory

SpecAccessors == Init /\ [][NextAccessors]_vars

(* ------------------------------- properties --------------------------- *)

\* the last call was a receiveData that returned its result object
Returned == lastCall = "receiveData" /\ result.kind = "result"

lastRecord == processedDataHistory[Len(processedDataHistory)]

isNumber(x) == x.k = "number"

twoSidedMetrics == {"temperature", "voltage", "current"}

\* C1: with at least 10 processed records generateHealthReport() returns a
\* full report whose healthScore.current is the healthScore of the most
\* recent record and whose status is the bucket of that score.
C1_FullReportReturned ==
    (lastCall = "generateHealthReport" /\ Len(processedDataHistory) >= 10)
    => /\ result.kind = "report"
       /\ result.healthScore.status.text # "insufficient data"
       /\ result.healthScore.current = lastRecord.healthScore
       /\ result.healthScore.status = determineHealthStatus(lastRecord.healthScore)

\* some metric of two complete readings differs by more than its rate ceiling
exceedsRateCeiling(data, previous) ==
    \E f \in Metrics :
        /\ isNumber(data[f]) /\ isNumber(previous[f])
        /\ (data[f].v - previous[f].v > rateCeilings[f]
            \/ previous[f].v - data[f].v > rateCeilings[f])

\* C2: when two consecutively ingested readings, each inside the absolute
\* plausibility bounds, differ in some metric by more than its rate ceiling,
\* receiveData returns isAccurate = false for the second one.
C2_RateOfChangeRejected ==
    (/\ Returned
     /\ Len(processedDataHistory) >= 2
     /\ inPlausibleRanges(lastRecord.data)
     /\ inPlausibleRanges(processedDataHistory[Len(processedDataHistory) - 1].data)
     /\ exceedsRateCeiling(lastRecord.data,
                           processedDataHistory[Len(processedDataHistory) - 1].data))
    => result.isAccurate = FALSE

\* positions, in requiredFields, of the metrics strictly beyond their anomaly
\* threshold
anomalousMetrics(data) ==
    {i \in 1..Len(requiredFields) :
        LET f == requiredFields[i] IN
        \/ Gt(data[f], config.anomalyThresholds[f].max)
        \/ f \in twoSidedMetrics /\ Lt(data[f], config.anomalyThresholds[f].min)}

\* the reason texts detectAnomaly has for each metric
reasonTexts ==
    [temperature  |-> {"TemperatureLow", "TemperatureHigh"},
     voltage      |-> {"PressureLow", "PressureHigh"},
     current      |-> {"ShakeLow", "ShakeHigh"},
     vibration    |-> {"VibrationHigh"},
     displacement |-> {"DisplacementHigh"},
     tilt         |-> {"TiltHigh"}]

firstOf(S) == CHOOSE i \in S : \A j \in S : i <= j

lastOf(S) == CHOOSE i \in S : \A j \in S : i >= j

\* the reason returned, stored in the record and logged is the one of metric i
reasonIsOf(i) ==
    /\ result.anomalyReason.text \in reasonTexts[requiredFields[i]]
    /\ lastRecord.anomalyReason = result.anomalyReason
    /\ Len(anomalyLog) > 0
    /\ anomalyLog[Len(anomalyLog)].reason = result.anomalyReason

\* C3 (as stated): with several metrics beyond their anomaly thresholds, the
\* reason is the one of the FIRST anomalous metric in the order temperature,
\* voltage, current, vibration, displacement, tilt.
C3_FirstAnomalousMetricWins ==
    (Returned /\ Cardinality(anomalousMetrics(arg)) >= 2)
    => reasonIsOf(firstOf(anomalousMetrics(arg)))

\* C3 (amended): with several metrics beyond their anomaly thresholds, the
\* reason returned, stored and logged is the one of the LAST anomalous metric
\* in that order.
C3_LastAnomalousMetricWins ==
    (Returned /\ Cardinality(anomalousMetrics(arg)) >= 2)
    => reasonIsOf(lastOf(anomalousMetrics(arg)))

C3_Witness ==
    /\ Returned
    /\ Cardinality(anomalousMetrics(arg)) >= 2
    /\ result.isAnomaly
    /\ result.anomalyReason.text = "TiltHigh"
    /\ 1 \in anomalousMetrics(arg)

\* new is old with one entry appended, the oldest entry dropped when old was full
appendedTo(old, new, limit) ==
    IF Len(old) < limit
    THEN Len(new) = Len(old) + 1 /\ SubSeq(new, 1, Len(old)) = old
    ELSE Len(new) = limit /\ SubSeq(new, 1, limit - 1) = Tail(old)

\* C4: each of the three logs holds at most historyLimit entries, and an append
\* to a full log removes exactly the oldest entry and keeps the others in order.
C4_BoundedLogs ==
    /\ [](/\ Len(processedDataHistory) <= config.historyLimit
          /\ Len(healthHistory) <= config.historyLimit
          /\ Len(anomalyLog) <= config.historyLimit)
    /\ [][/\ \/ processedDataHistory' = processedDataHistory
             \/ appendedTo(processedDataHistory, processedDataHistory',
                           config.historyLimit)
          /\ \/ healthHistory' = healthHistory
             \/ appendedTo(healthHistory, healthHistory', config.historyLimit)
          /\ \/ anomalyLog' = anomalyLog
             \/ appendedTo(anomalyLog, anomalyLog', config.historyLimit)]_vars

\* all three logs are full and each has lost its first entry
C4_Witness ==
    /\ Len(processedDataHistory) = config.historyLimit
    /\ Len(healthHistory) = config.historyLimit
    /\ Len(anomalyLog) = config.historyLimit
    /\ processedDataHistory[1].timestamp = 2
    /\ healthHistory[1].timestamp = 2
    /\ anomalyLog[1].timestamp = 2

\* C5: for a reading with missing or null metrics receiveData returns a result
\* with isComplete = false, and the reading is scored and appended to the
\* processed-record history.
C5_MalformedReadingProcessed ==
    (lastCall = "receiveData" /\ ~ validateDataCompleteness(arg))
    => /\ result.kind = "result"
       /\ result.isComplete = FALSE
       /\ Len(processedDataHistory) > 0
       /\ lastRecord.data = arg
       /\ lastRecord.healthScore = result.healthScore

\* C6: with fewer than 10 processed records both report generators return the
\* insufficient-data report and leave the three logs unchanged.
C6_InsufficientData ==
    [][(Len(processedDataHistory) < 10)
       => /\ (lastCall' = "generateHealthReport")
             => (result' = InsufficientHealthReport /\ logs' = logs)
          /\ (lastCall' = "generateDataQualityReport")
             => (result' = InsufficientDataQualityReport /\ logs' = logs)]_vars

C6_Witness ==
    /\ lastCall = "generateDataQualityReport"
    /\ Len(processedDataHistory) = 9
    /\ Len(anomalyLog) > 0
    /\ result.qualityLevel.name = "insufficient data"

\* the value is a number at or beyond the anomaly bound of metric f
atOrBeyondAnomalyBound(data, f) ==
    /\ isNumber(data[f])
    /\ \/ data[f].v >= config.anomalyThresholds[f].max
       \/ f \in twoSidedMetrics /\ data[f].v <= config.anomalyThresholds[f].min

\* C7: a metric value at or beyond its anomaly bound has per-metric score 0.
C7_ZeroAtAnomalyBound ==
    (lastCall = "receiveData")
    => \A f \in Metrics :
           atOrBeyondAnomalyBound(arg, f) => metricScore(arg, f).n = 0

\* C8: a reading flagged isAnomaly = true has a healthScore below 100.
C8_AnomalyScoresBelow100 ==
    (Returned /\ result.isAnomaly) => result.healthScore < 100

\* the value lies in the normal, warning, anomaly range of metric f; the
\* one-sided metrics have no lower warning or anomaly bound
inNormalRange(x, f) ==
    x.v >= config.normalRanges[f].min /\ x.v <= config.normalRanges[f].max

inWarningRange(x, f) ==
    /\ x.v <= config.warningThresholds[f].max
    /\ f \in twoSidedMetrics => x.v >= config.warningThresholds[f].min

inAnomalyRange(x, f) ==
    /\ x.v <= config.anomalyThresholds[f].max
    /\ f \in twoSidedMetrics => x.v >= config.anomalyThresholds[f].min

\* C9: per metric the normal range lies inside the warning range and the
\* warning range inside the anomaly range: a value received in the normal range
\* is in the warning range, and one in the warning range is in the anomaly range.
C9_NestedRanges ==
    (lastCall = "receiveData")
    => \A f \in Metrics :
           isNumber(arg[f])
           => /\ inNormalRange(arg[f], f) => inWarningRange(arg[f], f)
              /\ inWarningRange(arg[f], f) => inAnomalyRange(arg[f], f)

\* C10: for every reading, complete or not, calculateHealthScore returns an
\* integer from 0 to 100.
C10_ScoreInRange ==
    (lastCall = "receiveData")
    => /\ calculateHealthScore(arg) \in 0..100
       /\ result.kind = "result" => result.healthScore = calculateHealthScore(arg)

\* an incomplete reading was scored below 100
C10_Witness ==
    /\ Returned
    /\ ~ validateDataCompleteness(arg)
    /\ result.healthScore \in 1..99

\* C11: when the anomaly notification of an anomalous reading is published,
\* the processed record, the health sample and the anomaly record of that
\* reading are already in their logs: the logs a listener reads are the logs
\* receiveData leaves behind.
C11_NotificationIsLastStep ==
    (Returned /\ dispatched # << >>)
    => /\ Len(seenAtDispatch) = 1
       /\ seenAtDispatch[1].processedDataHistory = processedDataHistory
       /\ seenAtDispatch[1].anomalyLog = anomalyLog
       /\ seenAtDispatch[1].healthHistory = healthHistory

\* C12: a receiveData call that returns appends one entry to the anomaly log
\* and publishes exactly one notification if and only if its result has
\* isAnomaly = true; the logged and the published reason are the anomalyReason
\* of the result; a non-anomalous call does neither.
C12_AnomalyLoggedAndPublished ==
    [][(now' = now + 1 /\ result'.kind = "result")
       => IF result'.isAnomaly
          THEN /\ appendedTo(anomalyLog, anomalyLog', AnomalyLogLimit)
               /\ anomalyLog'[Len(anomalyLog')].reason = result'.anomalyReason
               /\ anomalyLog'[Len(anomalyLog')].data = arg'
               /\ Len(dispatched') = 1
               /\ dispatched'[1].type = "platform.anomaly"
               /\ dispatched'[1].detail.reason = result'.anomalyReason
               /\ dispatched'[1].detail.data = arg'
          ELSE /\ anomalyLog' = anomalyLog
               /\ dispatched' = << >>]_vars

\* an anomalous call after a non-anomalous one: one entry logged, one event
C12_Witness ==
    /\ Returned
    /\ result.isAnomaly
    /\ Len(dispatched) = 1
    /\ Len(anomalyLog) = 1
    /\ Len(processedDataHistory) = 2

\* record i passes the absolute-bound check and the rate-of-change check against
\* record i - 1
accurateAgainstPredecessor(i) ==
    /\ inPlausibleRanges(processedDataHistory[i].data)
    /\ \/ i = 1
       \/ ~ exceedsRateCeiling(processedDataHistory[i].data,
                               processedDataHistory[i - 1].data)

\* C13: the accuracy sub-score of the data-quality report is the percentage of
\* retained records whose reading passes the absolute-bound check and the
\* rate-of-change check against the record appended immediately before it
\* (stated while no record has been evicted yet).
C13_AccuracyAgainstPredecessor ==
    (/\ lastCall = "generateDataQualityReport"
     /\ Len(processedDataHistory) >= 10
     /\ now <= config.historyLimit)
    => result.metrics.accuracy =
           percentage(countTo([i \in 1..Len(processedDataHistory) |->
                                  accurateAgainstPredecessor(i)],
                              Len(processedDataHistory)),
                      Len(processedDataHistory))

\* items are the n most recently appended entries of log, newest first
newestFirst(items, log, n) ==
    /\ Len(items) = (IF n < Len(log) THEN n ELSE Len(log))
    /\ \A i \in 1..Len(items) : items[i] = log[Len(log) + 1 - i]

\* the n of a read accessor call: its argument, or 100 when there is none
limitOf(x) == IF x = Undefined THEN 100 ELSE x.v

\* C14: for every n >= 0 and every history state getProcessedDataHistory(n)
\* returns the n most recently appended processed records, newest first, with
\* length min(n, count); getHealthHistory and getAnomalyLog do the same for
\* their logs.
C14_NewestFirst ==
    /\ lastCall = "getProcessedDataHistory"
       => newestFirst(result.items, processedDataHistory, limitOf(arg))
    /\ lastCall = "getHealthHistory"
       => newestFirst(result.items, healthHistory, limitOf(arg))
    /\ lastCall = "getAnomalyLog"
       => newestFirst(result.items, anomalyLog, limitOf(arg))

\* getProcessedDataHistory(2) on a longer history of distinct records
C14_Witness ==
    /\ lastCall = "getProcessedDataHistory"
    /\ arg = Num(2)
    /\ Len(processedDataHistory) >= 3
    /\ Len(result.items) = 2
    /\ result.items[1].timestamp > result.items[2].timestamp
    /\ result.items[1].data # result.items[2].data

\* C15: every receiveData call that returns appends exactly one record to the
\* processed-record history and one sample with the same score to the health
\* history, whatever isComplete, isAccurate and isAnomaly are; the two logs
\* have equal length and the i-th sample's score is the i-th record's
\* healthScore.
C15_OneRecordOneSample ==
    /\ [](/\ Len(healthHistory) = Len(processedDataHistory)
          /\ \A i \in 1..Len(healthHistory) :
                 healthHistory[i].score = processedDataHistory[i].healthScore)
    /\ [][(now' = now + 1 /\ result'.kind = "result")
          => /\ appendedTo(processedDataHistory, processedDataHistory',
                           config.historyLimit)
             /\ appendedTo(healthHistory, healthHistory', config.historyLimit)
             /\ processedDataHistory'[Len(processedDataHistory')].healthScore
                    = result'.healthScore
             /\ healthHistory'[Len(healthHistory')].score = result'.healthScore]_vars

\* two calls returned, the first with an incomplete, implausible and anomalous
\* reading, the second with a sound one
C15_Witness ==
    /\ Returned
    /\ result.isComplete /\ result.isAccurate /\ ~ result.isAnomaly
    /\ Len(processedDataHistory) = 2
    /\ Len(healthHistory) = 2
    /\ processedDataHistory[1].isAnomaly
    /\ ~ validateDataCompleteness(processedDataHistory[1].data)
    /\ ~ inPlausibleRanges(processedDataHistory[1].data)

readCalls ==
    {"generateDataQualityReport", "getAnomalyLog", "getHealthHistory",
     "getProcessedDataHistory"}

\* C16: generateDataQualityReport, getAnomalyLog, getHealthHistory and
\* getProcessedDataHistory leave the three logs unchanged, and a receiveData
\* call changes the logs by appending only: the entries already there are
\* left as they were.
C16_ReadsChangeNothing ==
    [][/\ lastCall' \in readCalls
          => /\ processedDataHistory' = processedDataHistory
             /\ healthHistory' = healthHistory
             /\ anomalyLog' = anomalyLog
             /\ now' = now
       /\ now' = now + 1
          => /\ appendedTo(processedDataHistory, processedDataHistory',
                           config.historyLimit)
             /\ appendedTo(healthHistory, healthHistory', config.historyLimit)
             /\ \/ anomalyLog' = anomalyLog
                \/ appendedTo(anomalyLog, anomalyLog', AnomalyLogLimit)]_vars

\* getAnomalyLog() returned a log of several entries, which is still in
\* insertion order
C16_Witness ==
    /\ lastCall = "getAnomalyLog"
    /\ Len(anomalyLog) >= 2
    /\ Len(result.items) = 2
    /\ anomalyLog[1].timestamp < anomalyLog[2].timestamp

\* C17: for a reading with six numeric metrics receiveData returns
\* isAnomaly = true exactly when some metric is strictly beyond its anomaly
\* threshold, whatever the history is; a metric at its bound does not flag.
C17_AnomalyIffBeyondThreshold ==
    (Returned /\ \A f \in Metrics : isNumber(arg[f]))
    => result.isAnomaly = (anomalousMetrics(arg) # {})

\* vibration at its anomaly bound, the other metrics normal: not flagged
C17_Witness ==
    /\ Returned
    /\ \A f \in Metrics : isNumber(arg[f])
    /\ arg.vibration.v = config.anomalyThresholds.vibration.max
    /\ arg.temperature.v = config.anomalyThresholds.temperature.max
    /\ ~ result.isAnomaly

\* C18: with at least 10 processed records the recommendations of the
\* data-quality report are one advisory for each sub-score below its
\* threshold, or the one positive recommendation when there is none; the list
\* is never empty.
C18_RecommendationsMatchThresholds ==
    (lastCall = "generateDataQualityReport" /\ Len(processedDataHistory) >= 10)
    => LET m == result.metrics
           p == config.dataQualityParams
           advisories ==
               (IF Lt(m.completeness.score, p.completenessThreshold)
                THEN << "ImproveCompleteness" >> ELSE << >>)
               \o (IF Lt(m.accuracy.score, p.accuracyThreshold)
                   THEN << "ImproveAccuracy" >> ELSE << >>)
               \o (IF Lt(m.stability.score, p.stabilityThreshold)
                   THEN << "ImproveStability" >> ELSE << >>)
       IN  /\ result.recommendations # << >>
           /\ result.recommendations =
                  (IF advisories = << >> THEN << "QualityGood" >> ELSE advisories)

\* the retained processed records with isAnomaly = true, as anomaly records
retainedAnomalies ==
    LET flagged == SelectSeq(processedDataHistory, LAMBDA r : r.isAnomaly)
    IN  [i \in 1..Len(flagged) |->
            [timestamp |-> flagged[i].timestamp,
             data |-> flagged[i].data,
             reason |-> flagged[i].anomalyReason]]

\* C19: after any sequence of receiveData calls the anomaly log holds exactly
\* the retained processed records with isAnomaly = true, in the same order.
C19_AnomalyLogMatchesHistory == anomalyLog = retainedAnomalies

====
